---- MODULE Spec2Model ----
(***************************************************************************)
(* A model of the nls package: the Problem factory, the Solution object    *)
(* (coefficients, pumping sampling, setters, store/restore) of             *)
(* src/src/nls/model.py and the three animation drivers of                 *)
(* src/src/nls/animation.py.                                               *)
(*                                                                         *)
(* Numbers are exact rationals [n, d]; numpy arrays are records            *)
(* [tag, shape, val, tr] holding the shape, the row-major content and      *)
(* whether the content is read transposed.  Python's None, raised          *)
(* exceptions and returned values are tagged records.  The modules         *)
(* nls/pumping.py, nls/solver.py and nls/native are not part of the        *)
(* sources at hand: a pumping profile is a list of Gaussian components     *)
(* whose intensity at a position is an uninterpreted term, and the solver  *)
(* is modelled after the specification's description of solve.             *)
(***************************************************************************)
EXTENDS Integers, Sequences, FiniteSets, TLC

VARIABLES
    kind,     \* what `model` is bound to: "None", "Model1D", "Model2D", "Solution"
    sol,      \* the Solution object (model.solution)
    files,    \* the mat-files on disk, by file name
    call,     \* history: the keyword arguments of the last Problem.model call
    ret,      \* what the last call returned or raised
    built,    \* history: the coefficient vector computed by Solution.__init__
    twin,     \* a second Solution, built from the same arguments (solve additivity)
    anim      \* the running animation driver

vars == <<kind, sol, files, call, ret, built, twin, anim>>

---------------------------------------------------------------------------
(* Bounds of the model *)

MaxNodes == 2      \* num_nodes passed explicitly ranges over 1..MaxNodes
MaxLen == 4        \* lengths of explicitly passed 1-D fields range over 1..MaxLen
MaxDx == 2         \* dx ranges over 1..MaxDx (in units of the default spacing)
MaxPower == 1      \* pumping powers range over 0..MaxPower
MaxRate == 1       \* physical rates range over -MaxRate..MaxRate
MaxIters == 2      \* iteration counts passed to solve range over 0..MaxIters
MaxFrames == 2     \* the frames argument of an animation ranges over 0..MaxFrames
MaxTime == 1       \* elapsed times passed to setElapsedTime range over 0..MaxTime

---------------------------------------------------------------------------
(* Python values *)

None == [tag |-> "None"]
Raise(exc) == [tag |-> "raise", exc |-> exc]
Return(v) == [tag |-> "return", value |-> v]

(* Exact rational numbers, normalised: d > 0 and gcd(n, d) = 1. *)
Abs(x) == IF x < 0 THEN -x ELSE x

RECURSIVE GCD(_, _)
GCD(a, b) == IF b = 0 THEN a ELSE GCD(b, a % b)

Rat(n, d) ==
    LET s == IF d < 0 THEN -1 ELSE 1
        g == GCD(Abs(n), Abs(d))
    IN  [n |-> (s * n) \div g, d |-> (s * d) \div g]

Num(i) == Rat(i, 1)
RNeg(a) == Rat(-a.n, a.d)
RAdd(a, b) == Rat(a.n * b.d + b.n * a.d, a.d * b.d)
RSub(a, b) == RAdd(a, RNeg(b))
RMul(a, b) == Rat(a.n * b.n, a.d * b.d)
RDiv(a, b) == Rat(a.n * b.d, a.d * b.n)
RLess(a, b) == a.n * b.d < b.n * a.d

(* numpy arrays *)
Array(shape, val) == [tag |-> "array", shape |-> shape, val |-> val, tr |-> FALSE]

Reverse(s) == [i \in 1..Len(s) |-> s[Len(s) + 1 - i]]

\* len(a): the first dimension of an array
len(a) == a.shape[1]

\* a.T: the axes reversed.  A 1-D array is returned as it is; a row or a column
\* keeps the order of its content; a matrix is read transposed.
Transpose(a) ==
    IF Len(a.shape) < 2 THEN a
    ELSE [a EXCEPT !.shape = Reverse(a.shape),
                   !.tr = IF \E i \in 1..Len(a.shape) : a.shape[i] = 1
                          THEN a.tr ELSE ~a.tr]

\* a.reshape(n): the same content, flat
reshape(a, n) == [a EXCEPT !.shape = <<n>>]

\* u0 * ones(shape): a uniform field
Uniform(c, shape) == Array(shape, [field |-> "uniform", c |-> c])

\* linspace(start, stop, num): num nodes from start to stop, both included
linspace(start, stop, num) ==
    [k \in 1..num |->
        IF num = 1 THEN start
        ELSE RAdd(start, RDiv(RMul(Num(k - 1), RSub(stop, start)), Num(num - 1)))]

\* arange(start, stop, step) for start < stop and step > 0:
\* start + k*step for every k >= 0 with start + k*step < stop
arange(start, stop, step) ==
    LET q == RDiv(RSub(stop, start), step)
        count == IF q.n % q.d = 0 THEN q.n \div q.d ELSE (q.n \div q.d) + 1
    IN  [k \in 1..count |-> RAdd(start, RMul(Num(k - 1), step))]

---------------------------------------------------------------------------
(* Pumping profiles (nls/pumping.py): a list of Gaussian components, each  *)
(* with a peak power and a centre x0.  The intensity of a profile at a     *)
(* position is the term [profile, at].                                     *)

GaussianPumping(power, x0) == <<[power |-> power, x0 |-> x0]>>

\* a + b: superposition of two profiles
Compose(a, b) == a \o b

\* profile(x) and profile(x, y) at one node
Evaluate(profile, pos) == [profile |-> profile, at |-> pos]

\* profile.power = v (a single Gaussian)
SetPowerOf(profile, v) == <<[profile[1] EXCEPT !.power = v]>>

\* GaussianPumping(): the profile the factory falls back to
DefaultPumping == GaussianPumping(1, 0)

Profiles ==
    {GaussianPumping(p, 0) : p \in 0..MaxPower}
    \cup {Compose(GaussianPumping(MaxPower, 1), GaussianPumping(MaxPower, -1))}

---------------------------------------------------------------------------
(* Solution.__init__ *)

t0 == 1    \* Solution.t0, seconds

ParamKeys == {"R", "gamma", "g", "tilde_g", "gamma_R"}

\* a constructor that validates the rates: every rate must be positive
CoeffsFaultValidating(originals) ==
    IF \E k \in ParamKeys : k \notin DOMAIN originals THEN Raise("KeyError")
    ELSE IF \E k \in ParamKeys : originals[k] <= 0 THEN Raise("ValueError")
    ELSE None

\* The exception the coefficient assignments raise, in the order the
\* statements run, or None: a missing key is a KeyError, a zero divisor a
\* ZeroDivisionError.
CoeffsFault(originals) ==
    LET has(k) == k \in DOMAIN originals
    IN  IF ~has("R") \/ ~has("tilde_g") THEN Raise("KeyError")
        ELSE IF 4 * originals.tilde_g = 0 THEN Raise("ZeroDivisionError")
        ELSE IF ~has("gamma") \/ ~has("gamma_R") THEN Raise("KeyError")
        ELSE IF originals.gamma_R = 0 THEN Raise("ZeroDivisionError")
        ELSE IF ~has("g") THEN Raise("KeyError")
        ELSE IF originals.gamma_R * originals.g = 0 THEN Raise("ZeroDivisionError")
        ELSE None

\* self.coeffs after the assignments of lines 175-191 (slot i is val[i + 1])
Coeffs(originals) ==
    Array(<<23>>,
        [i \in 1..23 |->
            CASE i = 1 -> Num(1)
              [] i = 2 -> Num(1)
              [] i = 3 -> Rat(originals.R, 4 * originals.tilde_g)
              [] i = 4 -> Rat(originals.gamma * t0, 2)
              [] i = 5 -> Num(1)
              [] i = 6 -> Num(1)
              [] i = 11 -> Num(0)
              [] i = 12 -> Rat(2 * originals.tilde_g * t0, originals.gamma_R)
              [] i = 13 -> Num(1)
              [] i = 14 -> Rat(originals.R, originals.gamma_R * originals.g)
              [] i = 15 -> Num(0)
              [] OTHER -> Num(0)])

\* Solution(dt, dx, num_nodes, order, num_iters, pumping, originals, init_solution):
\* the new object, or the exception raised.  desc and label are attributes only
\* restore sets: <<>> stands for an attribute that is not set.
SolutionInit(dt, dx, num_nodes, order, num_iters, pumping, originals, init_solution) ==
    IF CoeffsFault(originals) # None THEN CoeffsFault(originals)
    ELSE [tag |-> "Solution",
          dt |-> dt,
          dx |-> dx,
          order |-> order,
          num_nodes |-> num_nodes,
          num_iters |-> num_iters,
          pumping |-> pumping,
          init_sol |-> init_solution,
          solution |-> None,
          originals |-> originals,
          coeffs |-> Coeffs(originals),
          elapsed_time |-> Array(<<>>, 0),
          desc |-> <<>>,
          label |-> <<>>]

---------------------------------------------------------------------------
(* Solution.getPumping and the positions Solution.visualize plots over *)

\* meshgrid(x, x): the node (i, j) of the mesh, row-major, is (x[j], x[i])
meshgrid(x) ==
    LET n == Len(x)
    IN  [k \in 1..(n * n) |-> <<x[((k - 1) % n) + 1], x[((k - 1) \div n) + 1]>>]

\* the 2-D branch, lines 210-214
getPumping2D(self) ==
    LET right == RDiv(RMul(Num(self.num_nodes), self.dx), Num(2))
        left == RNeg(right)
        x == linspace(left, right, self.num_nodes)
        grid == meshgrid(x)
    IN  reshape(Array(<<self.num_nodes, self.num_nodes>>,
                      [k \in 1..Len(grid) |-> Evaluate(self.pumping, grid[k])]),
                self.num_nodes * self.num_nodes)

\* the 1-D branch, lines 216-220
getPumping1D(self) ==
    LET right == RMul(Num(self.num_nodes), self.dx)
        left == Num(0)
        x == linspace(left, right, self.num_nodes)
    IN  Array(<<self.num_nodes>>,
              [k \in 1..Len(x) |-> Evaluate(self.pumping, <<x[k]>>)])

\* a sample taken once and kept: the profile bound at construction, whatever
\* the Solution holds now
getPumpingCached(self) ==
    LET first == [self EXCEPT !.pumping = IF "pumping" \in call.given
                                          THEN call.pumping ELSE DefaultPumping]
    IN  IF first.num_nodes * first.num_nodes = len(first.init_sol)
        THEN getPumping2D(first)
        ELSE getPumping1D(first)

getPumping(self) ==
    IF self.num_nodes * self.num_nodes = len(self.init_sol)
    THEN getPumping2D(self)
    ELSE getPumping1D(self)

\* x of Solution.visualize, line 250
visualizeNodes(self) ==
    arange(Num(0), RMul(self.dx, Num(self.num_nodes)), self.dx)

---------------------------------------------------------------------------
(* Problem.model and the two fabricate methods.  kwargs is the record of   *)
(* the keyword arguments; kwargs.given is the set of keys passed.          *)

DefaultDx == Rat(1, 10)
DefaultDt == Rat(1, 1000)
DefaultU0 == [tag |-> "scalar", pytype |-> "float", v |-> Rat(1, 10)]
DefaultOrder1D == 5
DefaultOrder2D == 3
DefaultNodes1D == 1000
DefaultNodes2D == 40
DefaultIters1D == 100000
DefaultIters2D == 1000

Get(kwargs, key, default) == IF key \in kwargs.given THEN kwargs[key] ELSE default

\* type(u0) in (int, float, complex)
IsScalar(u0) == u0.tag = "scalar" /\ u0.pytype \in {"int", "float", "complex"}

\* Model1D(**kwargs) and Model2D(**kwargs): pprint reads every key, then the
\* Solution and its solver are built
ModelInit(class, kwargs) ==
    IF "original_params" \notin kwargs.given THEN Raise("KeyError")
    ELSE LET s == SolutionInit(kwargs.dt, kwargs.dx, kwargs.num_nodes, kwargs.order,
                               kwargs.num_iters, kwargs.pumping,
                               kwargs.original_params, kwargs.u0)
         IN  IF s.tag = "raise" THEN s
             ELSE Return([tag |-> class, solution |-> s])

AllGiven == {"model", "dx", "dt", "u0", "order", "pumping", "num_nodes", "num_iters"}

fabricateModel1D(kwargs) ==
    LET num_nodes == Get(kwargs, "num_nodes", DefaultNodes1D)
        u0 == Get(kwargs, "u0", DefaultU0)
        filled == [kwargs EXCEPT
            !.given = @ \cup AllGiven,
            !.dx = Get(kwargs, "dx", DefaultDx),
            !.dt = Get(kwargs, "dt", DefaultDt),
            !.order = Get(kwargs, "order", DefaultOrder1D),
            !.pumping = Get(kwargs, "pumping", DefaultPumping),
            !.num_nodes = num_nodes,
            !.num_iters = Get(kwargs, "num_iters", DefaultIters1D),
            !.u0 = IF IsScalar(u0) THEN Uniform(u0, <<num_nodes>>) ELSE u0]
    IN  ModelInit("Model1D", filled)

fabricateModel2D(kwargs) ==
    LET num_nodes == Get(kwargs, "num_nodes", DefaultNodes2D)
        u0 == Get(kwargs, "u0", DefaultU0)
        filled == [kwargs EXCEPT
            !.given = @ \cup AllGiven,
            !.dx = Get(kwargs, "dx", DefaultDx),
            !.dt = Get(kwargs, "dt", DefaultDt),
            !.order = Get(kwargs, "order", DefaultOrder2D),
            !.pumping = Get(kwargs, "pumping", DefaultPumping),
            !.num_nodes = num_nodes,
            !.num_iters = Get(kwargs, "num_iters", DefaultIters2D),
            !.u0 = IF IsScalar(u0) THEN Uniform(u0, <<num_nodes, num_nodes>>) ELSE u0]
    IN  ModelInit("Model2D", filled)

\* Problem().model(**kwargs): line 48 is an expression statement that reads
\* kwargs['model'] when the key is absent
ProblemModel(kwargs) ==
    LET kw == [kwargs EXCEPT !.given = @ \ {"params"}]
    IN  IF "model" \notin kw.given THEN Raise("KeyError")
        ELSE IF kw.model \in {"1d", "default"} THEN fabricateModel1D(kw)
        ELSE IF kw.model = "2d" THEN fabricateModel2D(kw)
        ELSE Raise("Exception")

---------------------------------------------------------------------------
(* Solution.store and Solution.restore.  A mat-file is the dictionary      *)
(* store hands to savemat; loadmat returns every array with at least two   *)
(* dimensions (a number as 1 x 1, a 1-D array of n elements as 1 x n).     *)

NoFile == [tag |-> "nofile"]

\* filename if filename else str(date).replace(' ', '_') + '.mat'
storeName(filename) == IF filename # "" THEN filename ELSE "date.mat"

\* the dictionary of lines 288-295
matfileOf(self, label, desc) ==
    [tag |-> "mat",
     desc |-> desc,
     dimlesses |-> self.coeffs,
     elapsed_time |-> self.elapsed_time,
     label |-> label,
     originals |-> self.originals,
     pumping |-> getPumping(self),
     solution |-> self.solution]

\* an array as loadmat returns it
loadmat(a) ==
    IF Len(a.shape) = 0 THEN [a EXCEPT !.shape = <<1, 1>>]
    ELSE IF Len(a.shape) = 1 THEN [a EXCEPT !.shape = <<1, a.shape[1]>>]
    ELSE a

\* str(matfile[key][0]) if matfile[key].size else '': the text, '' for no text
loadstr(text) == <<IF Len(text) > 0 THEN text ELSE "">>

\* a restore that reads everything but the coefficients
restoredKeepingCoeffs(self, matfile) ==
    [self EXCEPT
        !.desc = loadstr(matfile.desc),
        !.elapsed_time = loadmat(matfile.elapsed_time),
        !.label = loadstr(matfile.label),
        !.originals = <<>>,
        !.solution = Transpose(loadmat(matfile.solution))]

\* self after lines 304-309
restored(self, matfile) ==
    [self EXCEPT
        !.desc = loadstr(matfile.desc),
        !.coeffs = Transpose(loadmat(matfile.dimlesses)),
        !.elapsed_time = loadmat(matfile.elapsed_time),
        !.label = loadstr(matfile.label),
        !.originals = <<>>,
        !.solution = Transpose(loadmat(matfile.solution))]

---------------------------------------------------------------------------
(* The calls *)

Self == [tag |-> "self"]
HasObject == kind # "None"

\* model = Problem().model(**kw); ret names the class of the model returned,
\* whose solution is sol
Build(kw) ==
    \E r \in {ProblemModel(kw)} :
        /\ call' = kw
        /\ ret' = IF r.tag = "return" THEN Return([tag |-> r.value.tag]) ELSE r
        /\ IF r.tag = "return"
           THEN /\ kind' = r.value.tag
                /\ sol' = r.value.solution
                /\ built' = r.value.solution.coeffs
           ELSE UNCHANGED <<kind, sol, built>>
        /\ UNCHANGED <<files, twin, anim>>

SetNumberOfIterations(n) ==
    /\ HasObject
    /\ sol' = [sol EXCEPT !.num_iters = n]
    /\ ret' = Return(None)
    /\ UNCHANGED <<kind, files, call, built, twin, anim>>

SetPumping(p) ==
    /\ HasObject
    /\ sol' = [sol EXCEPT !.pumping = p]
    /\ ret' = Return(None)
    /\ UNCHANGED <<kind, files, call, built, twin, anim>>

SetInitialSolution(f) ==
    /\ HasObject
    /\ sol' = [sol EXCEPT !.init_sol = f]
    /\ ret' = Return(None)
    /\ UNCHANGED <<kind, files, call, built, twin, anim>>

SetSolution(f) ==
    /\ HasObject
    /\ sol' = [sol EXCEPT !.solution = f]
    /\ ret' = Return(None)
    /\ UNCHANGED <<kind, files, call, built, twin, anim>>

SetElapsedTime(seconds) ==
    /\ HasObject
    /\ sol' = [sol EXCEPT !.elapsed_time = Array(<<>>, seconds)]
    /\ ret' = Return(None)
    /\ UNCHANGED <<kind, files, call, built, twin, anim>>

\* model.solution.pumping.power = v, as the power sweep assigns it
SetPower(v) ==
    /\ HasObject
    /\ Len(sol.pumping) = 1
    /\ sol' = [sol EXCEPT !.pumping = SetPowerOf(@, v)]
    /\ ret' = Return(None)
    /\ UNCHANGED <<kind, files, call, built, twin, anim>>

GetPumping ==
    /\ HasObject
    /\ ret' = Return(getPumping(sol))
    /\ UNCHANGED <<kind, sol, files, call, built, twin, anim>>

\* store(filename) of a Solution that holds a field (savemat cannot write None)
Store(filename) ==
    /\ HasObject
    /\ sol.solution # None
    /\ files' = [files EXCEPT ![storeName(filename)] = matfileOf(sol, "", "")]
    /\ ret' = Return(None)
    /\ UNCHANGED <<kind, sol, call, built, twin, anim>>

\* restore(filename): loadmat raises when there is no such file
Restore(filename) ==
    /\ HasObject
    /\ IF files[filename] = NoFile
       THEN /\ ret' = Raise("IOError")
            /\ UNCHANGED sol
       ELSE /\ sol' = restored(sol, files[filename])
            /\ ret' = Return(Self)
    /\ UNCHANGED <<kind, files, call, built, twin, anim>>

---------------------------------------------------------------------------
(* The solver (nls/solver.py), after the specification: solve performs     *)
(* num_iters integration steps on the current field, the bound solution or *)
(* else the initial field, replaces the solution by the result and adds    *)
(* the time spent to elapsed_time.  A field advanced by n steps is the     *)
(* term [from, steps, ctx]; steps taken in the same context add up.        *)

\* what a step reads besides the field
StepContext(self) ==
    [dt |-> self.dt, dx |-> self.dx, order |-> self.order, num_nodes |-> self.num_nodes,
     coeffs |-> self.coeffs.val, pumping |-> self.pumping]

Evolve(u, n, ctx) ==
    IF n = 0 THEN u
    ELSE IF u.val.field = "evolved" /\ u.val.ctx = ctx
         THEN [u EXCEPT !.val.steps = @ + n]
         ELSE [u EXCEPT !.val = [field |-> "evolved", from |-> u.val, steps |-> n,
                                 ctx |-> ctx]]

\* the number of steps solver(num_iters) performs: num_iters is <<passed, value>>
Budget(self, num_iters) == IF num_iters[1] THEN num_iters[2] ELSE self.num_iters

\* self after solver(num_iters), which took `seconds`
solver(self, num_iters, seconds) ==
    LET current == IF self.solution # None THEN self.solution ELSE self.init_sol
    IN  [self EXCEPT
            !.num_iters = Budget(self, num_iters),
            !.solution = Evolve(current, Budget(self, num_iters), StepContext(self)),
            !.elapsed_time = [@ EXCEPT !.val = @ + seconds]]

---------------------------------------------------------------------------
(* The inputs *)

\* the physical parameters of solve2d.py, in units that make them integers,
\* and a second set
Params1 == [R |-> 1, gamma |-> 1, g |-> 1, tilde_g |-> 1, gamma_R |-> 1]
Params2 == [R |-> 1, gamma |-> 1, g |-> 1, tilde_g |-> 1, gamma_R |-> 2]

Data(shape) == Array(shape, [field |-> "data", c |-> DefaultU0])

\* 1-D fields of every length up to MaxLen, and square fields
Fields1D == {Data(<<k>>) : k \in 1..MaxLen}
Fields2D == {Data(<<n, n>>) : n \in 1..MaxNodes}

Scalars ==
    {[tag |-> "scalar", pytype |-> t, v |-> Rat(1, 10)] : t \in {"int", "float", "complex"}}

\* a keyword argument is a pair <<passed, value>>
Absent(dummy) == <<FALSE, dummy>>
Passed(values) == {<<TRUE, v>> : v \in values}

Kwargs(model, dx, u0, pumping, num_nodes, num_iters, original_params) ==
    [given |->
        {k \in {"model", "dx", "u0", "pumping", "num_nodes", "num_iters", "original_params"} :
            CASE k = "model" -> model[1]
              [] k = "dx" -> dx[1]
              [] k = "u0" -> u0[1]
              [] k = "pumping" -> pumping[1]
              [] k = "num_nodes" -> num_nodes[1]
              [] k = "num_iters" -> num_iters[1]
              [] k = "original_params" -> original_params[1]},
     model |-> model[2],
     dx |-> dx[2],
     dt |-> DefaultDt,
     u0 |-> u0[2],
     order |-> 0,
     pumping |-> pumping[2],
     num_nodes |-> num_nodes[2],
     num_iters |-> num_iters[2],
     original_params |-> original_params[2]]

FactoryCalls ==
    {Kwargs(m, dx, u0, p, n, Absent(0), o) :
        m \in {Absent("")} \cup Passed({"1d", "2d", "default", "3d"}),
        dx \in {Absent(Num(0))} \cup Passed({Rat(k, 10) : k \in 1..MaxDx}),
        u0 \in {Absent(None)} \cup Passed(Scalars \cup Fields1D \cup Fields2D),
        p \in {Absent(<<>>)} \cup Passed({GaussianPumping(MaxPower, 1)}),
        n \in Passed(1..MaxNodes),
        o \in {Absent(<<>>)} \cup Passed({Params1})}

NoKwargs == Kwargs(Absent(""), Absent(Num(0)), Absent(None), Absent(<<>>), Absent(0),
                   Absent(0), Absent(<<>>))

---------------------------------------------------------------------------
(* Spec: a script builds one model through the factory, then replaces or   *)
(* mutates the pumping profile, re-seeds the initial field and samples the *)
(* pumping.                                                                *)

Init ==
    /\ kind = "None"
    /\ sol = None
    /\ files = [f \in {"a.mat"} |-> NoFile]
    /\ call = NoKwargs
    /\ ret = Return(None)
    /\ built = None
    /\ twin = None
    /\ anim = None

\* the script calls the factory once; when the call raises, the script ends
BuildOnce == call = NoKwargs /\ \E kw \in FactoryCalls : Build(kw)
ReplacePumping == \E p \in Profiles : SetPumping(p)
MutatePower == \E v \in 0..MaxPower : SetPower(v)
Reseed == \E f \in Fields1D : SetInitialSolution(f)

Next ==
    \/ BuildOnce
    \/ ReplacePumping
    \/ MutatePower
    \/ Reseed
    \/ GetPumping

Spec == Init /\ [][Next]_vars

---------------------------------------------------------------------------
(* Properties of the factory and of the pumping sample (under Spec) *)

\* the last call was getPumping (the only call that returns an array)
Sampled == ret.tag = "return" /\ ret.value.tag = "array"

\* a is a radial sample: count entries, each at a position on the line
IsSample1D(a, count) ==
    /\ a.shape = <<count>>
    /\ Len(a.val) = count
    /\ \A k \in 1..count : Len(a.val[k].at) = 1

\* a is a Cartesian sample: count entries, each at a position in the plane
IsSample2D(a, count) ==
    /\ a.shape = <<count>>
    /\ Len(a.val) = count
    /\ \A k \in 1..count : Len(a.val[k].at) = 2

\* C1: with num_nodes >= 2, getPumping takes the dimension from the length of
\* the bound initial field: length num_nodes gives the 1-D radial sample of
\* num_nodes entries, length num_nodes^2 the 2-D Cartesian sample of
\* num_nodes^2 entries, and any other length a ShapeMismatchError instead of
\* an array.
C1_DimensionInference ==
    (HasObject /\ sol.num_nodes >= 2 /\ ret.tag = "return" /\ ret.value # None
        /\ ret.value.tag = "array") =>
        LET n == sol.num_nodes
            l == len(sol.init_sol)
        IN  IF l = n THEN IsSample1D(ret.value, n)
            ELSE IF l = n * n THEN IsSample2D(ret.value, n * n)
            ELSE ret = Raise("ShapeMismatchError")

\* the scalar u0 of the factory call, broadcast by the factory, is still bound
BroadcastBound ==
    /\ HasObject
    /\ IsScalar(Get(call, "u0", DefaultU0))
    /\ sol.init_sol.val = [field |-> "uniform", c |-> Get(call, "u0", DefaultU0)]

\* C2: on a model built with a scalar u0 (grids of at least two nodes),
\* getPumping returns the 2-D Cartesian sample of num_nodes^2 entries when the
\* model is '2d' and the 1-D sample of num_nodes entries when it is '1d'.
C2_ScalarBroadcast ==
    (BroadcastBound /\ Sampled /\ sol.num_nodes >= 2) =>
        /\ kind = "Model2D" =>
            /\ len(sol.init_sol) = sol.num_nodes * sol.num_nodes
            /\ IsSample2D(ret.value, sol.num_nodes * sol.num_nodes)
        /\ kind = "Model1D" =>
            /\ len(sol.init_sol) = sol.num_nodes
            /\ IsSample1D(ret.value, sol.num_nodes)

\* C7: Problem.model called without the 'model' option (and with the physical
\* parameters) builds a Model1D.
C7_DefaultModelKind ==
    (call # NoKwargs /\ "model" \notin call.given /\ "original_params" \in call.given) =>
        kind = "Model1D"

\* C9: in the 1-D case the sample of getPumping is taken at the num_nodes
\* positions k*dx, k = 0..num_nodes-1, the positions visualize plots over; every
\* position lies in [0, dx*num_nodes).
C9_RadialNodes ==
    (Sampled /\ HasObject /\ len(sol.init_sol) = sol.num_nodes
        /\ sol.num_nodes * sol.num_nodes # sol.num_nodes) =>
        /\ Len(ret.value.val) = sol.num_nodes
        /\ \A k \in 1..Len(ret.value.val) :
            /\ ret.value.val[k].at = <<RMul(Num(k - 1), sol.dx)>>
            /\ ret.value.val[k].at = <<visualizeNodes(sol)[k]>>
            /\ RLess(ret.value.val[k].at[1], RMul(sol.dx, Num(sol.num_nodes)))

\* C5 (state part): the sample getPumping returned is the sample of the
\* profile the Solution holds now, at every node.
C5_SampleOfCurrentProfile ==
    Sampled =>
        /\ HasObject
        /\ \A k \in 1..Len(ret.value.val) : ret.value.val[k].profile = sol.pumping

\* C5: getPumping samples the profile that is current at the call, whether it
\* was bound at construction, replaced by setPumping or had its power
\* mutated, and getPumping leaves every field of the Solution as it was.
C5_PumpingOnDemand ==
    /\ []C5_SampleOfCurrentProfile
    /\ [][(ret'.tag = "return" /\ ret'.value.tag = "array") => sol' = sol]_vars

\* C5 witness: the profile was changed after construction and then sampled
C5_Witness ==
    /\ Sampled
    /\ HasObject
    /\ sol.pumping # Get(call, "pumping", DefaultPumping)
    /\ \E k \in 1..Len(ret.value.val) : ret.value.val[k].profile = sol.pumping

---------------------------------------------------------------------------
(* SpecCoeffs: the coefficient derivation on every physical-parameter set  *)
(* with rates in -MaxRate..MaxRate (the floats -1.0, 0.0, 1.0, ...), and   *)
(* on sets that lack a key.                                                *)

Rates == (0 - MaxRate)..MaxRate

ParamSets ==
    [ParamKeys -> Rates] \cup {[k \in ParamKeys \ {m} |-> 1] : m \in ParamKeys}

AllPresent(originals) == DOMAIN originals = ParamKeys

Derive ==
    /\ call = NoKwargs
    /\ \E o \in ParamSets :
        Build(Kwargs(<<TRUE, "1d">>, Absent(Num(0)), Absent(None), Absent(<<>>),
                     <<TRUE, MaxNodes>>, Absent(0), <<TRUE, o>>))

NextCoeffs ==
    \/ Derive
    \/ GetPumping

SpecCoeffs == Init /\ [][NextCoeffs]_vars

\* the Solution was constructed from the parameters of the call
Constructed ==
    /\ ret.tag = "return"
    /\ HasObject
    /\ sol.originals = call.original_params
    /\ sol.coeffs.shape = <<23>>
    /\ Len(sol.coeffs.val) = 23

\* C8 as stated: with all five parameters present, whatever their sign and
\* also when some are zero, constructing the Solution completes with a
\* coefficient vector.
C8_NoValidation ==
    (call # NoKwargs /\ AllPresent(call.original_params)) => Constructed

\* C8 amended: with all five parameters present and the divisors 4*tilde_g,
\* gamma_R and gamma_R*g non-zero (R and gamma may be zero, and any rate may
\* be negative), constructing the Solution completes with a coefficient vector.
C8_NoValidationNonZeroDivisors ==
    (/\ call # NoKwargs
     /\ AllPresent(call.original_params)
     /\ 4 * call.original_params.tilde_g # 0
     /\ call.original_params.gamma_R # 0
     /\ call.original_params.gamma_R * call.original_params.g # 0) => Constructed

\* C8 witness: a Solution constructed from a zero and a negative rate
C8_Witness ==
    /\ call # NoKwargs
    /\ AllPresent(call.original_params)
    /\ call.original_params.R = 0
    /\ call.original_params.gamma_R < 0
    /\ Constructed
    /\ sol.coeffs.val[3] = Num(0)

---------------------------------------------------------------------------
(* SpecStore: scripts that build a model, set its fields, store it and     *)
(* restore it.  The mat-file outlives the model: a later script builds a   *)
(* new model and restores the file an earlier one stored.                  *)

StoreCalls ==
    {Kwargs(<<TRUE, "1d">>, Absent(Num(0)), Absent(None), Absent(<<>>),
            <<TRUE, MaxNodes>>, <<TRUE, 1>>, <<TRUE, o>>) : o \in {Params1, Params2}}

Rebuild == \E kw \in StoreCalls : Build(kw)
SwapPumping == SetPumping(GaussianPumping(MaxPower, 1))
ReseedSquare == SetInitialSolution(Data(<<MaxNodes * MaxNodes>>))
BindField == SetSolution(Data(<<MaxNodes>>))
SetBudget == SetNumberOfIterations(MaxIters)
SetClock == SetElapsedTime(MaxTime)
StoreFile == Store("a.mat")
RestoreFile == Restore("a.mat")

NextStore ==
    \/ Rebuild
    \/ SwapPumping
    \/ ReseedSquare
    \/ BindField
    \/ SetBudget
    \/ SetClock
    \/ GetPumping
    \/ StoreFile
    \/ RestoreFile

SpecStore == Init /\ [][NextStore]_vars

\* restore has just returned
Restored == ret = Return(Self)

\* the same numbers in the same order, whatever the shape
SameValues(a, b) == a.tag = b.tag /\ (a.tag = "array" => a.val = b.val /\ a.tr = b.tr)

\* only slots 0-5 and 10-14 of a coefficient vector are non-zero
OnlyPopulatedSlots(c) ==
    \A i \in 1..Len(c.val) : c.val[i] # Num(0) => (i - 1) \in (0..5) \cup (10..14)

\* C3: after store(destination) and restore(destination) the Solution has the
\* coefficients, the elapsed time, the field and the original parameters of the
\* state that was stored (the state the file records).
C3_RoundTrip ==
    Restored =>
        /\ SameValues(sol.coeffs, files["a.mat"].dimlesses)
        /\ SameValues(sol.elapsed_time, files["a.mat"].elapsed_time)
        /\ SameValues(sol.solution, files["a.mat"].solution)
        /\ sol.originals = files["a.mat"].originals

\* C4 as stated: whatever public operations ran, the coefficients are the ones
\* derived at construction, and only slots 0-5 and 10-14 are non-zero.
C4_NeverChanged ==
    HasObject =>
        /\ sol.coeffs.val = built.val
        /\ OnlyPopulatedSlots(sol.coeffs)

\* C4 (state part): only slots 0-5 and 10-14 are non-zero, in the Solution
\* and in every file store wrote.
C4_Slots ==
    /\ HasObject => OnlyPopulatedSlots(sol.coeffs) /\ Len(sol.coeffs.val) = 23
    /\ files["a.mat"] # NoFile => OnlyPopulatedSlots(files["a.mat"].dimlesses)

\* C4 amended: the setters, getPumping and store leave the coefficient vector
\* as it is (so until a restore it holds the values derived at construction);
\* restore replaces it by the vector the file holds; only slots 0-5 and 10-14
\* are ever non-zero.
C4_ChangedOnlyByRestore ==
    /\ []C4_Slots
    /\ [][(ret'.tag = "return" /\ ret'.value.tag \in {"None", "array"})
            => sol'.coeffs = sol.coeffs]_vars
    /\ [][ret' = Return(Self) => sol'.coeffs.val = files["a.mat"].dimlesses.val]_vars
    /\ [](HasObject /\ sol.desc = <<>> => sol.coeffs = built)

\* C4 witness: after setters and a store, a restore has put another
\* Solution's coefficients in place of the constructed ones
C4_Witness ==
    /\ Restored
    /\ sol.coeffs.val # built.val
    /\ sol.coeffs.val = files["a.mat"].dimlesses.val
    /\ OnlyPopulatedSlots(sol.coeffs)

---------------------------------------------------------------------------
(* SpecSolve: a script builds a model, may bind a field, a profile or a     *)
(* budget, and calls solve.  twin records the Solution as it was before    *)
(* the first solve and the number of steps each solve was called for.      *)

SolveCalls ==
    {Kwargs(<<TRUE, m>>, Absent(Num(0)), Absent(None), Absent(<<>>),
            <<TRUE, MaxNodes>>, <<TRUE, 1>>, <<TRUE, Params1>>) : m \in {"1d", "2d"}}

\* a solve that drops its argument: return self.solver()
ModelSolveDefault(num_iters) ==
    /\ HasObject
    /\ \E seconds \in 0..MaxTime :
        sol' = solver(sol, Absent(0), seconds)
    /\ twin' = IF twin = None
               THEN [tag |-> "twin", obj |-> sol, ran |-> <<Budget(sol, num_iters)>>]
               ELSE [twin EXCEPT !.ran = Append(@, Budget(sol, num_iters))]
    /\ ret' = Return(Self)
    /\ UNCHANGED <<kind, files, call, built, anim>>

\* model.solve(num_iters): lines 93-94 hand num_iters to the solver and return
\* the Solution it returns
ModelSolve(num_iters) ==
    /\ HasObject
    /\ \E seconds \in 0..MaxTime :
        sol' = solver(sol, num_iters, seconds)
    /\ twin' = IF twin = None
               THEN [tag |-> "twin", obj |-> sol, ran |-> <<Budget(sol, num_iters)>>]
               ELSE [twin EXCEPT !.ran = Append(@, Budget(sol, num_iters))]
    /\ ret' = Return(Self)
    /\ UNCHANGED <<kind, files, call, built, anim>>

BuildSolve == call = NoKwargs /\ \E kw \in SolveCalls : Build(kw)
SolveTwice ==
    /\ IF twin = None THEN TRUE ELSE Len(twin.ran) < 2
    /\ \E n \in {Absent(0)} \cup Passed(0..MaxIters) : ModelSolve(n)
Unsolved == twin = None

NextSolve ==
    \/ BuildSolve
    \/ Unsolved /\ BindField
    \/ Unsolved /\ SwapPumping
    \/ Unsolved /\ SetBudget
    \/ SolveTwice

SpecSolve == Init /\ [][NextSolve]_vars

---------------------------------------------------------------------------
(* The animation drivers (nls/animation.py).  anim is the running animate   *)
(* call: its class, frames and step, the loop index i, the statement of    *)
(* the loop body it is at, the solve and grab_frame calls made so far, and *)
(* the calls made for the current frame.                                   *)

SweepPower == 3    \* power of the two Gaussian sources of the radius sweep

Classes == {"IterationIncrease", "PumpingRadiusIncrease", "PumpingPowerIncrease"}

\* the first statement of the loop body
FirstStatement(class) == IF class = "IterationIncrease" THEN "solve" ELSE "mutate"

\* for i in xrange(frames + 1): the statement after the loop test
LoopTest(class, i, frames) == IF i < frames + 1 THEN FirstStatement(class) ELSE "done"

Animating == anim # None

At(statement) == IF Animating THEN anim.pc = statement ELSE FALSE

\* the calls of the frame so far, the frame starting anew after a grab
Logged(event) ==
    IF anim.frame # <<>> /\ anim.frame[Len(anim.frame)] = "grab"
    THEN <<event>>
    ELSE Append(anim.frame, event)

\* Animation(model, frames, step).animate(filename)
Animate(class, frames, step) ==
    /\ HasObject
    /\ ~Animating
    /\ anim' = [tag |-> "anim", class |-> class, frames |-> frames, step |-> step,
                i |-> 0, pc |-> LoopTest(class, 0, frames),
                solves |-> 0, grabs |-> 0, frame |-> <<>>]
    /\ UNCHANGED <<kind, sol, files, call, ret, built, twin>>

\* lines 75-78 and line 100: the profile of the frame
AnimMutate ==
    /\ At("mutate")
    /\ IF anim.class = "PumpingRadiusIncrease"
       THEN sol' = [sol EXCEPT !.pumping =
                       Compose(GaussianPumping(SweepPower, anim.i * anim.step),
                               GaussianPumping(SweepPower, 0 - anim.i * anim.step))]
       ELSE sol' = [sol EXCEPT !.pumping = SetPowerOf(@, anim.i * anim.step)]
    /\ anim' = [anim EXCEPT !.pc = "solve", !.frame = Logged("mutate")]
    /\ UNCHANGED <<kind, files, call, ret, built, twin>>

\* a loop body that solves again where it should re-seed
AnimSolveAgain ==
    /\ At("solve")
    /\ \E seconds \in 0..MaxTime :
        sol' = solver(solver(sol, Absent(0), seconds), Absent(0), 0)
    /\ anim' = [anim EXCEPT
                    !.pc = "visualize",
                    !.solves = @ + 2,
                    !.frame = Logged("solve") \o <<"solve">>]
    /\ ret' = Return(Self)
    /\ UNCHANGED <<kind, files, call, built, twin>>

\* lines 54, 79 and 101: solve(self.step) in the iteration animation, solve()
\* in the sweeps
AnimSolve ==
    /\ At("solve")
    /\ \E seconds \in 0..MaxTime :
        sol' = solver(sol,
                      IF anim.class = "IterationIncrease"
                      THEN <<TRUE, anim.step>> ELSE Absent(0),
                      seconds)
    /\ anim' = [anim EXCEPT
                    !.pc = IF anim.class = "PumpingPowerIncrease"
                           THEN "visualize" ELSE "reseed",
                    !.solves = @ + 1,
                    !.frame = Logged("solve")]
    /\ ret' = Return(Self)
    /\ UNCHANGED <<kind, files, call, built, twin>>

\* lines 55 and 80: solution.setInitialSolution(solution.getSolution())
AnimReseed ==
    /\ At("reseed")
    /\ sol' = [sol EXCEPT !.init_sol = sol.solution]
    /\ anim' = [anim EXCEPT !.pc = "visualize", !.frame = Logged("reseed")]
    /\ ret' = Return(None)
    /\ UNCHANGED <<kind, files, call, built, twin>>

\* lines 56, 81 and 102: solution.visualize() draws and changes nothing
AnimVisualize ==
    /\ At("visualize")
    /\ anim' = [anim EXCEPT !.pc = "grab", !.frame = Logged("visualize")]
    /\ ret' = Return(None)
    /\ UNCHANGED <<kind, sol, files, call, built, twin>>

\* lines 57, 82 and 103: self.writer.grab_frame(), then the next i
AnimGrab ==
    /\ At("grab")
    /\ anim' = [anim EXCEPT
                    !.pc = LoopTest(anim.class, anim.i + 1, anim.frames),
                    !.i = @ + 1,
                    !.grabs = @ + 1,
                    !.frame = Logged("grab")]
    /\ UNCHANGED <<kind, sol, files, call, ret, built, twin>>

---------------------------------------------------------------------------
(* SpecAnim: a script builds a model and runs one animation on it *)

StartAnimation ==
    \E class \in Classes, frames \in (0 - 1)..MaxFrames, step \in 1..MaxIters :
        Animate(class, frames, step)

NextAnim ==
    \/ BuildSolve
    \/ StartAnimation
    \/ AnimMutate
    \/ AnimSolve
    \/ AnimReseed
    \/ AnimVisualize
    \/ AnimGrab

SpecAnim == Init /\ [][NextAnim]_vars

IsPrefix(s, t) == Len(s) <= Len(t) /\ \A k \in 1..Len(s) : s[k] = t[k]

\* the calls the claim orders, per frame
FrameOrder(class) ==
    IF class = "IterationIncrease"
    THEN <<"solve", "visualize", "grab">>
    ELSE <<"mutate", "solve", "visualize", "grab">>

Ordered(frame) == SelectSeq(frame, LAMBDA e : e \in {"mutate", "solve", "visualize", "grab"})

\* C10: in each driver a frame is one profile mutation (the two sweeps), then
\* one solve, then visualize, then one grab_frame: every grab has its own
\* solve before it and no two solves fall between consecutive grabs.
C10_FrameOrder ==
    Animating =>
        /\ IsPrefix(Ordered(anim.frame), FrameOrder(anim.class))
        /\ anim.grabs = anim.i
        /\ anim.solves \in {anim.grabs, anim.grabs + 1}
        /\ (anim.frame # <<>> /\ anim.frame[Len(anim.frame)] = "grab") =>
            /\ Ordered(anim.frame) = FrameOrder(anim.class)
            /\ anim.solves = anim.grabs
        /\ anim.pc = "done" => anim.grabs = anim.solves /\ anim.grabs = anim.frames + 1

\* C10 witness: a sweep has rendered at least two frames and ended
C10_Witness ==
    /\ Animating
    /\ anim.class = "PumpingPowerIncrease"
    /\ anim.pc = "done"
    /\ anim.grabs >= 2
    /\ anim.solves = anim.grabs
    /\ Ordered(anim.frame) = <<"mutate", "solve", "visualize", "grab">>

====
